---- MODULE Spec2Model ----
(***************************************************************************)
(* Model of git-helper-cli (cmd package): the config / show-config /       *)
(* create-branch / create-commit commands, the configuration store and     *)
(* the string functions they use.                                          *)
(*                                                                         *)
(* A Go string is modelled as a sequence of one-character strings.  The    *)
(* token "U+00E9" stands for one non-ASCII character whose UTF-8 encoding  *)
(* is two bytes, so that len() (a byte count) differs from the number of   *)
(* characters.                                                             *)
(***************************************************************************)
EXTENDS Integers, Sequences, FiniteSets, TLC

(* ---------------------------------------------------------------------- *)
(* Program constants                                                       *)
(* ---------------------------------------------------------------------- *)
maxCommitDescLength == 50
maxDescLength == 30

(* ---------------------------------------------------------------------- *)
(* Bounds of the model                                                     *)
(* ---------------------------------------------------------------------- *)
\* Input lengths are taken from limit .. (limit + PadSlack).
PadSlack == 1

(* ---------------------------------------------------------------------- *)
(* Characters and Go's string functions                                    *)
(* ---------------------------------------------------------------------- *)
UpperLetters == <<"A","B","C","D","E","F","G","H","I","J","K","L","M",
                  "N","O","P","Q","R","S","T","U","V","W","X","Y","Z">>
LowerLetters == <<"a","b","c","d","e","f","g","h","i","j","k","l","m",
                  "n","o","p","q","r","s","t","u","v","w","x","y","z">>
Digits == {"0","1","2","3","4","5","6","7","8","9"}

IsUpper(c) == \E i \in 1..26 : UpperLetters[i] = c
IsLower(c) == \E i \in 1..26 : LowerLetters[i] = c
\* [A-Za-z]
IsLetter(c) == IsUpper(c) \/ IsLower(c)
\* \d
IsDigit(c) == c \in Digits
\* unicode.IsSpace, restricted to the characters of the model
IsSpace(c) == c \in {" ", "\n", "\t"}

ToLowerChar(c) == IF IsUpper(c)
                  THEN LowerLetters[CHOOSE i \in 1..26 : UpperLetters[i] = c]
                  ELSE c
ToUpperChar(c) == IF IsLower(c)
                  THEN UpperLetters[CHOOSE i \in 1..26 : LowerLetters[i] = c]
                  ELSE c

\* strings.ToLower
ToLower(s) == [i \in 1..Len(s) |-> ToLowerChar(s[i])]

\* strings.Title on a single word: the first letter is upper-cased
Title(s) == [i \in 1..Len(s) |-> IF i = 1 THEN ToUpperChar(s[i]) ELSE s[i]]

\* strings.ReplaceAll(s, old, new) for one-character old and new
ReplaceAll(s, old, new) == [i \in 1..Len(s) |-> IF s[i] = old THEN new ELSE s[i]]

\* len(s): the number of bytes of the UTF-8 encoding
CharBytes(c) == IF c = "U+00E9" THEN 2 ELSE 1
RECURSIVE ByteLen(_)
ByteLen(s) == IF s = <<>> THEN 0 ELSE CharBytes(Head(s)) + ByteLen(Tail(s))

\* strings.TrimSpace
RECURSIVE TrimLeft(_)
TrimLeft(s) == IF s # <<>> /\ IsSpace(Head(s)) THEN TrimLeft(Tail(s)) ELSE s
RECURSIVE TrimRight(_)
TrimRight(s) == IF s # <<>> /\ IsSpace(s[Len(s)])
                THEN TrimRight(SubSeq(s, 1, Len(s) - 1))
                ELSE s
TrimSpace(s) == TrimRight(TrimLeft(s))

\* strings.Split(s, sep) for a one-character sep: always at least one part
RECURSIVE Split(_, _)
Split(s, sep) ==
    IF \A i \in 1..Len(s) : s[i] # sep
    THEN <<s>>
    ELSE LET k == CHOOSE i \in 1..Len(s) :
                      s[i] = sep /\ \A j \in 1..(i - 1) : s[j] # sep
         IN  <<SubSeq(s, 1, k - 1)>> \o Split(SubSeq(s, k + 1, Len(s)), sep)

\* regexp.MatchString(`^[A-Za-z]+-\d+$`, s)
MatchTicket(s) ==
    \E k \in 2..(Len(s) - 1) :
        /\ s[k] = "-"
        /\ \A i \in 1..(k - 1) : IsLetter(s[i])
        /\ \A i \in (k + 1)..Len(s) : IsDigit(s[i])

\* regexp.MatchString("^[A-Za-z]{2}$", s)
MatchAbbrev(s) == Len(s) = 2 /\ IsLetter(s[1]) /\ IsLetter(s[2])

\* the string of n copies of the character c
Rep(c, n) == [i \in 1..n |-> c]

(* ---------------------------------------------------------------------- *)
(* String literals of the program                                          *)
(* ---------------------------------------------------------------------- *)
fix == <<"f","i","x">>
feat == <<"f","e","a","t">>
lego == <<"l","e","g","o">>
plec == <<"p","l","e","c">>
Fixes == <<"F","i","x","e","s">>
Closes == <<"C","l","o","s","e","s">>

\* options of the two type selects and of the product select
branchTypeOptions == {fix, feat}
commitTypeOptions == {fix, feat}
productOptions == {lego, plec}
menuOptions == {"Confirm and create branch", "Edit branch type",
                "Edit description", "Edit JIRA ticket ID", "Cancel"}

(* ---------------------------------------------------------------------- *)
(* Inputs                                                                  *)
(* ---------------------------------------------------------------------- *)
AddLoginPage == <<"A","d","d"," ","l","o","g","i","n"," ","p","a","g","e">>
CPRE999 == <<"C","P","R","E","-","9","9","9">>
cli1 == <<"c","l","i","-","1">>
mainBranch == <<"m","a","i","n">>
featureCPRE123 == <<"f","e","a","t","u","r","e","/","C","P","R","E","-","1","2","3">>
CPRE123 == <<"C","P","R","E","-","1","2","3">>
featureBadTicket == <<"f","e","a","t","u","r","e","/","b","a","d"," ","t","i","c","k","e","t">>
nestedBranch == <<"a","/","b","/","C","L","I","-","3","4","3","4","3">>
trailingSlash == <<"C","P","R","E","-","1","2","3","/">>

\* the lengths at a limit and just over it
Around(limit) == limit..(limit + PadSlack)

\* what the user may type at the branch description prompt
DescInputs ==
    {<<>>, <<" ">>, AddLoginPage}
    \cup {Rep("x", n) : n \in Around(maxDescLength)}
    \cup {<<"A", " ">> \o Rep("b", maxDescLength - 2)}
    \cup {Rep("x", maxDescLength - 1) \o <<"U+00E9">>}

\* what the user may type at the commit description prompt
CommitDescInputs ==
    {<<>>, <<" ">>, AddLoginPage}
    \cup {Rep("y", n) : n \in Around(maxCommitDescLength)}
    \cup {Rep("y", maxCommitDescLength - 1) \o <<"U+00E9">>}

\* what the user may type at the ticket prompt
TicketInputs ==
    {<<>>, CPRE999, cli1, <<"C","P","R","E","-">>, <<"-","1","2">>,
     <<"A","1","-","2">>, <<"A","B","-","1","x">>, <<"A","-","7","\n">>,
     <<"b","a","d"," ","t","i","c","k","e","t">>}

\* what the user may type at the abbreviation prompt
AbbrevInputs ==
    {<<>>, <<"D","s">>, <<"d","5">>, <<"d">>, <<"d","s","x">>}

\* the branches HEAD may name before the first command runs
InitialBranches ==
    {mainBranch, featureCPRE123, CPRE123, featureBadTicket, nestedBranch,
     trailingSlash}

(* ---------------------------------------------------------------------- *)
(* Pure functions of the program                                           *)
(* ---------------------------------------------------------------------- *)
\* as extractTicketFromBranch, but the first part is taken
extractTicketFromBranch_First(b) ==
    LET parts == Split(b, "/")
    IN  IF Len(parts) < 1
        THEN [ticket |-> <<>>, err |-> "branch name does not contain a '/' separator"]
        ELSE LET ticket == parts[1]
             IN  IF ~MatchTicket(ticket)
                 THEN [ticket |-> <<>>, err |-> "does not match expected pattern"]
                 ELSE [ticket |-> ticket, err |-> "nil"]

\* extractTicketFromBranch: the ticket and the error ("nil" for none)
extractTicketFromBranch(b) ==
    LET parts == Split(b, "/")
    IN  IF Len(parts) < 1
        THEN [ticket |-> <<>>, err |-> "branch name does not contain a '/' separator"]
        ELSE LET ticket == parts[Len(parts)]
             IN  IF ~MatchTicket(ticket)
                 THEN [ticket |-> <<>>, err |-> "does not match expected pattern"]
                 ELSE [ticket |-> ticket, err |-> "nil"]

\* validator of the commit description prompt
commitDescValidator(str) ==
    IF ByteLen(str) = 0 THEN "commit description cannot be empty"
    ELSE IF ByteLen(str) > maxCommitDescLength THEN "commit description too long"
    ELSE "nil"

\* as descriptionValidator, without the upper limit
descriptionValidator_NoMax(str) ==
    LET formatted == ReplaceAll(str, " ", "-")
    IN  IF ByteLen(formatted) = 0 THEN "description cannot be empty"
        ELSE "nil"

\* validator of the branch description prompt
descriptionValidator(str) ==
    LET formatted == ReplaceAll(str, " ", "-")
    IN  IF ByteLen(formatted) > maxDescLength THEN "description too long"
        ELSE IF ByteLen(formatted) = 0 THEN "description cannot be empty"
        ELSE "nil"

\* validator of the ticket prompt
ticketValidator(str) ==
    IF ~MatchTicket(str) THEN "ticket ID must be in format ABC-123" ELSE "nil"

\* validator of the abbreviation prompt
abbrevValidator(str) ==
    IF ~MatchAbbrev(str) THEN "abbreviation must be exactly two letters" ELSE "nil"

\* as assembleBranchName, but the whole name is lower-cased
assembleBranchName_LowerAll(abbreviation, type, desc, ticket) ==
    ToLower(abbreviation \o <<"-">> \o type \o <<"-">> \o desc \o <<"/">> \o ticket)

\* fmt.Sprintf("%s-%s-%s/%s", ToLower(abbreviation), type, ToLower(description), ticket)
assembleBranchName(abbreviation, type, desc, ticket) ==
    ToLower(abbreviation) \o <<"-">> \o type \o <<"-">> \o ToLower(desc)
        \o <<"/">> \o ticket

\* fmt.Sprintf("%s(%s): %s", commitType, product, commitDesc)
assembleFirstMsg(type, prod, desc) ==
    type \o <<"(">> \o prod \o <<")", ":", " ">> \o desc

\* as commitVerb, but the verb is the capitalised type
commitVerb_Title(type) == Title(type)

\* the switch on commitType
commitVerb(type) ==
    IF type = fix THEN Fixes
    ELSE IF type = feat THEN Closes
    ELSE Title(type)

\* fmt.Sprintf("%s %s", verb, ticketID)
assembleSecondMsg(type, ticket) == commitVerb(type) \o <<" ">> \o ticket

\* as loadConfig, but the error of os.Open is returned
loadConfig_OpenErr(pathOk, fstate, fabbrev) ==
    IF ~pathOk THEN [cfg |-> <<>>, err |-> "path"]
    ELSE IF fstate \in {"absent", "unreadable"} THEN [cfg |-> <<>>, err |-> "open"]
    ELSE IF fstate = "undecodable" THEN [cfg |-> <<>>, err |-> "decode"]
    ELSE [cfg |-> fabbrev, err |-> "nil"]

\* loadConfig: pathOk is the outcome of configFilePath, fstate and fabbrev
\* the record on disk.  os.Open fails when the file is absent and when it
\* cannot be opened; either way the error is dropped.
loadConfig(pathOk, fstate, fabbrev) ==
    IF ~pathOk THEN [cfg |-> <<>>, err |-> "path"]
    ELSE IF fstate \in {"absent", "unreadable"} THEN [cfg |-> <<>>, err |-> "nil"]
    ELSE IF fstate = "undecodable" THEN [cfg |-> <<>>, err |-> "decode"]
    ELSE [cfg |-> fabbrev, err |-> "nil"]

(* ---------------------------------------------------------------------- *)
(* State                                                                   *)
(* ---------------------------------------------------------------------- *)
VARIABLES
    \* the environment, which outlives a run of the program
    configDir,    \* TRUE when ~/.git-helper-cli exists
    fileState,    \* config.json: "absent", "unreadable", "undecodable", "ok"
    fileAbbrev,   \* the abbreviation stored in a decodable config.json
    repo,         \* "norepo", "nostaged" or "staged"
    head,         \* the branch HEAD names
    \* one run of the program
    cmd,          \* the subcommand that runs
    pc,           \* the prompt the run waits at, "idle" or "exited"
    result,       \* what RunE returned: "none", "nil" or "err"
    errMsg,       \* the error returned
    abbrev,       \* config: the abbreviation entered
    cfg,          \* cfg.Abbreviation as loaded
    loadErr,      \* the error loadConfig returned
    branchType, description, ticketID, branchName, choice, confirm,
    confirmMsg,   \* the branch name in the message of the confirmation prompt
    commitType, product, commitDesc, branch, firstMsg, secondMsg,
    shownMsgs,    \* the two lines printed as Message 1 and Message 2
    gitCalls,     \* the external commands run so far in this run
    prompts,      \* the prompts shown so far in this run
    promptErr,    \* the message of the validator for the last input
    printed,      \* the fixed lines printed so far in this run
    step          \* the step taken last

envV == <<configDir, fileState, fileAbbrev, repo, head>>
ctlV == <<cmd, pc, result, errMsg>>
cfgV == <<abbrev, cfg, loadErr>>
brV  == <<branchType, description, branchName, choice, confirmMsg>>
cmV  == <<commitType, product, commitDesc, branch, firstMsg, secondMsg, shownMsgs>>
ioV  == <<gitCalls, prompts, promptErr, printed>>
vars == <<envV, ctlV, cfgV, brV, cmV, ticketID, confirm, ioV, step>>

PromptStates ==
    {"askAbbrev", "askBranchType", "askDescription", "askTicketID", "menu",
     "confirmBranch", "editBranchType", "editDescription", "editTicketID",
     "askCommitType", "askProduct", "askCommitDesc", "confirmCommit"}

\* the external commands
GitDiffCached == [op |-> "diff --cached --quiet", args |-> <<>>]
GitRevParse == [op |-> "rev-parse --abbrev-ref HEAD", args |-> <<>>]
GitCheckoutB(name) == [op |-> "checkout -b", args |-> <<name>>]
GitCommit(m1, m2) == [op |-> "commit -m -m", args |-> <<m1, m2>>]

Init ==
    /\ fileState \in {"absent", "unreadable", "undecodable", "ok"}
    /\ fileAbbrev \in {<<>>, <<"D","s">>}
    /\ fileState # "ok" => fileAbbrev = <<>>
    /\ configDir \in BOOLEAN
    /\ fileState # "absent" => configDir
    /\ repo \in {"norepo", "nostaged", "staged"}
    /\ head \in InitialBranches
    /\ cmd = "none" /\ pc = "idle" /\ result = "none" /\ errMsg = "nil"
    /\ abbrev = <<>> /\ cfg = <<>> /\ loadErr = "nil"
    /\ branchType = <<>> /\ description = <<>> /\ ticketID = <<>>
    /\ branchName = <<>> /\ choice = "" /\ confirm = FALSE /\ confirmMsg = <<>>
    /\ commitType = <<>> /\ product = <<>> /\ commitDesc = <<>> /\ branch = <<>>
    /\ firstMsg = <<>> /\ secondMsg = <<>> /\ shownMsgs = <<>>
    /\ gitCalls = <<>> /\ prompts = {} /\ promptErr = "nil" /\ printed = {}
    /\ step = "none"

\* the variables of a run as a new process finds them
NewRun(c) ==
    /\ pc \in {"idle", "exited"}
    /\ cmd' = c
    /\ abbrev' = <<>>
    /\ branchType' = <<>> /\ description' = <<>> /\ ticketID' = <<>>
    /\ branchName' = <<>> /\ choice' = "" /\ confirm' = FALSE /\ confirmMsg' = <<>>
    /\ commitType' = <<>> /\ product' = <<>> /\ commitDesc' = <<>> /\ branch' = <<>>
    /\ firstMsg' = <<>> /\ secondMsg' = <<>> /\ shownMsgs' = <<>>
    /\ promptErr' = "nil"

\* RunE returns
Return(r, msg) == pc' = "exited" /\ result' = r /\ errMsg' = msg

\* a prompt is shown and the run waits for the answer
Ask(p, name) == pc' = p /\ prompts' = prompts \cup {name} /\ UNCHANGED <<result, errMsg>>

\* configFilePath creates the directory when it succeeds
MkdirAll(pathOk) == configDir' = (configDir \/ pathOk)

(* ---------------------------------------------------------------------- *)
(* config and show-config                                                  *)
(* ---------------------------------------------------------------------- *)
\* configCmd.RunE up to the prompt
RunConfig ==
    /\ NewRun("config")
    /\ cfg' = <<>> /\ loadErr' = "nil"
    /\ pc' = "askAbbrev" /\ prompts' = {"abbreviation"}
    /\ result' = "none" /\ errMsg' = "nil"
    /\ gitCalls' = <<>> /\ printed' = {}
    /\ UNCHANGED envV

\* saveConfig(cfg): createOk and encodeOk are the outcomes of os.Create and
\* of Encode; os.Create truncates the file
saveConfig(a, pathOk, createOk, encodeOk) ==
    /\ MkdirAll(pathOk)
    /\ IF pathOk /\ createOk
       THEN IF encodeOk
            THEN fileState' = "ok" /\ fileAbbrev' = a
            ELSE fileState' = "undecodable" /\ fileAbbrev' = <<>>
       ELSE UNCHANGED <<fileState, fileAbbrev>>
    /\ IF pathOk /\ createOk /\ encodeOk
       THEN /\ Return("nil", "nil")
            /\ printed' = printed \cup {"Configuration saved successfully!"}
       ELSE /\ Return("err", "failed to save config")
            /\ UNCHANGED printed

\* the abbreviation prompt is answered
AnswerAbbrev(str) ==
    /\ pc = "askAbbrev"
    /\ promptErr' = abbrevValidator(str)
    /\ IF abbrevValidator(str) # "nil"
       THEN UNCHANGED <<envV, ctlV, abbrev, printed>>
       ELSE /\ abbrev' = str
            /\ \E pathOk, createOk, encodeOk \in BOOLEAN :
                   saveConfig(str, pathOk, createOk, encodeOk)
            /\ UNCHANGED <<repo, head, cmd>>
    /\ UNCHANGED <<cfg, loadErr, brV, cmV, ticketID, confirm, gitCalls, prompts>>

\* showConfigCmd.RunE
RunShowConfig ==
    /\ NewRun("show-config")
    /\ \E pathOk \in BOOLEAN :
        LET r == loadConfig(pathOk, fileState, fileAbbrev)
        IN  /\ MkdirAll(pathOk)
            /\ cfg' = r.cfg /\ loadErr' = r.err
            /\ IF r.err # "nil"
               THEN Return("err", "failed to load configuration") /\ printed' = {}
               ELSE IF r.cfg = <<>>
               THEN Return("nil", "nil") /\ printed' = {"No configuration found."}
               ELSE Return("nil", "nil") /\ printed' = {"Current Configuration:"}
    /\ gitCalls' = <<>> /\ prompts' = {}
    /\ UNCHANGED <<fileState, fileAbbrev, repo, head>>

\* survey.AskOne returns an error (the user interrupts the prompt)
Interrupt ==
    /\ pc \in PromptStates
    /\ Return("err", "interrupt")
    /\ UNCHANGED <<envV, cmd, cfgV, brV, cmV, ticketID, confirm, ioV>>

(* ---------------------------------------------------------------------- *)
(* create-branch                                                           *)
(* ---------------------------------------------------------------------- *)
\* createBranchCmd.RunE up to the first prompt
RunCreateBranch ==
    /\ NewRun("create-branch")
    /\ \E pathOk \in BOOLEAN :
        LET r == loadConfig(pathOk, fileState, fileAbbrev)
        IN  /\ MkdirAll(pathOk)
            /\ cfg' = r.cfg /\ loadErr' = r.err
            /\ IF r.err # "nil"
               THEN Return("err", "failed to load configuration") /\ prompts' = {}
               ELSE IF r.cfg = <<>>
               THEN Return("err", "no configuration found") /\ prompts' = {}
               ELSE /\ pc' = "askBranchType" /\ prompts' = {"branch type"}
                    /\ result' = "none" /\ errMsg' = "nil"
    /\ gitCalls' = <<>> /\ printed' = {}
    /\ UNCHANGED <<fileState, fileAbbrev, repo, head>>

\* the top of the review loop: the name is assembled from the fields and
\* the menu is shown
ReviewLoop(type, desc, ticket) ==
    /\ branchName' = assembleBranchName(cfg, type, desc, ticket)
    /\ choice' = ""
    /\ Ask("menu", "menu")

\* the first branch type prompt is answered
AnswerBranchType(t) ==
    /\ pc = "askBranchType"
    /\ branchType' = t
    /\ Ask("askDescription", "description")
    /\ UNCHANGED <<envV, cmd, cfgV, description, branchName, choice, confirmMsg,
                   cmV, ticketID, confirm, gitCalls, promptErr, printed>>

\* the first description prompt is answered
AnswerDescription(str) ==
    /\ pc = "askDescription"
    /\ promptErr' = descriptionValidator(str)
    /\ IF descriptionValidator(str) # "nil"
       THEN UNCHANGED <<description, pc, result, errMsg, prompts>>
       ELSE /\ description' = ReplaceAll(str, " ", "-")
            /\ Ask("askTicketID", "ticket")
    /\ UNCHANGED <<envV, cmd, cfgV, branchType, branchName, choice, confirmMsg,
                   cmV, ticketID, confirm, gitCalls, printed>>

\* the first ticket prompt is answered
AnswerTicketID(str) ==
    /\ pc = "askTicketID"
    /\ promptErr' = ticketValidator(str)
    /\ IF ticketValidator(str) # "nil"
       THEN UNCHANGED <<ticketID, branchName, choice, pc, result, errMsg, prompts>>
       ELSE /\ ticketID' = str
            /\ ReviewLoop(branchType, description, str)
    /\ UNCHANGED <<envV, cmd, cfgV, branchType, description, confirmMsg,
                   cmV, confirm, gitCalls, printed>>

\* the review menu is answered
ChooseMenu(c) ==
    /\ pc = "menu"
    /\ choice' = c
    /\ CASE c = "Confirm and create branch" ->
                /\ confirmMsg' = branchName
                /\ Ask("confirmBranch", "confirm")
                /\ UNCHANGED printed
         [] c = "Edit branch type" ->
                /\ Ask("editBranchType", "branch type")
                /\ UNCHANGED <<confirmMsg, printed>>
         [] c = "Edit description" ->
                /\ Ask("editDescription", "description")
                /\ UNCHANGED <<confirmMsg, printed>>
         [] c = "Edit JIRA ticket ID" ->
                /\ Ask("editTicketID", "ticket")
                /\ UNCHANGED <<confirmMsg, printed>>
         [] c = "Cancel" ->
                /\ printed' = printed \cup {"Aborting branch creation."}
                /\ Return("nil", "nil")
                /\ UNCHANGED <<confirmMsg, prompts>>
    /\ UNCHANGED <<envV, cmd, cfgV, branchType, description, branchName,
                   cmV, ticketID, confirm, gitCalls, promptErr>>

\* git checkout -b branchName: it fails outside a repository and may fail
\* inside one
CreateBranch ==
    /\ gitCalls' = Append(gitCalls, GitCheckoutB(branchName))
    /\ \E ok \in BOOLEAN :
        /\ repo = "norepo" => ~ok
        /\ IF ok
           THEN /\ head' = branchName
                /\ printed' = printed \cup {"Branch created and switched successfully!"}
                /\ Return("nil", "nil")
           ELSE /\ UNCHANGED <<head, printed>>
                /\ Return("err", "failed to create branch")
    /\ UNCHANGED <<branchName, choice, prompts>>

\* the confirmation is declined: the loop goes round
DeclineBranch ==
    /\ ReviewLoop(branchType, description, ticketID)
    /\ UNCHANGED <<head, gitCalls, printed>>

\* as AnswerConfirmBranch, but the answer is not looked at
AnswerConfirmBranch_NoCheck(b) ==
    /\ pc = "confirmBranch"
    /\ confirm' = b
    /\ CreateBranch
    /\ UNCHANGED <<configDir, fileState, fileAbbrev, repo, cmd, cfgV, branchType,
                   description, confirmMsg, cmV, ticketID, promptErr>>

\* the confirmation prompt of create-branch is answered
AnswerConfirmBranch(b) ==
    /\ pc = "confirmBranch"
    /\ confirm' = b
    /\ IF b THEN CreateBranch ELSE DeclineBranch
    /\ UNCHANGED <<configDir, fileState, fileAbbrev, repo, cmd, cfgV, branchType,
                   description, confirmMsg, cmV, ticketID, promptErr>>

\* as EditBranchType, but the description is lost
EditBranchType_ClearsDescription(t) ==
    /\ pc = "editBranchType"
    /\ branchType' = t
    /\ description' = <<>>
    /\ ReviewLoop(t, <<>>, ticketID)
    /\ UNCHANGED <<envV, cmd, cfgV, confirmMsg, cmV, ticketID,
                   confirm, gitCalls, promptErr, printed>>

\* "Edit branch type": the prompt is answered
EditBranchType(t) ==
    /\ pc = "editBranchType"
    /\ branchType' = t
    /\ ReviewLoop(t, description, ticketID)
    /\ UNCHANGED <<envV, cmd, cfgV, description, confirmMsg, cmV, ticketID,
                   confirm, gitCalls, promptErr, printed>>

\* "Edit description": the prompt is answered
EditDescription(str) ==
    /\ pc = "editDescription"
    /\ promptErr' = descriptionValidator(str)
    /\ IF descriptionValidator(str) # "nil"
       THEN UNCHANGED <<description, branchName, choice, pc, result, errMsg, prompts>>
       ELSE /\ description' = ReplaceAll(str, " ", "-")
            /\ ReviewLoop(branchType, ReplaceAll(str, " ", "-"), ticketID)
    /\ UNCHANGED <<envV, cmd, cfgV, branchType, confirmMsg, cmV, ticketID,
                   confirm, gitCalls, printed>>

\* "Edit JIRA ticket ID": the prompt is answered
EditTicketID(str) ==
    /\ pc = "editTicketID"
    /\ promptErr' = ticketValidator(str)
    /\ IF ticketValidator(str) # "nil"
       THEN UNCHANGED <<ticketID, branchName, choice, pc, result, errMsg, prompts>>
       ELSE /\ ticketID' = str
            /\ ReviewLoop(branchType, description, str)
    /\ UNCHANGED <<envV, cmd, cfgV, branchType, description, confirmMsg, cmV,
                   confirm, gitCalls, printed>>

(* ---------------------------------------------------------------------- *)
(* create-commit                                                           *)
(* ---------------------------------------------------------------------- *)
\* git diff --cached --quiet: exit status 0 ("nil") when nothing is staged,
\* 1 when something is, and an error outside a repository
stagedCheckRun(r) == IF r = "nostaged" THEN "nil" ELSE "exit status"

\* as RunCreateCommit, but the staged check's result is read the wrong way
RunCreateCommit_Inverted ==
    /\ NewRun("create-commit")
    /\ cfg' = <<>> /\ loadErr' = "nil"
    /\ gitCalls' = <<GitDiffCached>> /\ printed' = {}
    /\ IF stagedCheckRun(repo) # "nil"
       THEN Return("err", "no staged changes found") /\ prompts' = {}
       ELSE /\ pc' = "askCommitType" /\ prompts' = {"commit type"}
            /\ result' = "none" /\ errMsg' = "nil"
    /\ UNCHANGED envV

\* createCommitCmd.RunE up to the first prompt
RunCreateCommit ==
    /\ NewRun("create-commit")
    /\ cfg' = <<>> /\ loadErr' = "nil"
    /\ gitCalls' = <<GitDiffCached>> /\ printed' = {}
    /\ IF stagedCheckRun(repo) = "nil"
       THEN Return("err", "no staged changes found") /\ prompts' = {}
       ELSE /\ pc' = "askCommitType" /\ prompts' = {"commit type"}
            /\ result' = "none" /\ errMsg' = "nil"
    /\ UNCHANGED envV

\* the commit type prompt is answered
AnswerCommitType(t) ==
    /\ pc = "askCommitType"
    /\ commitType' = t
    /\ Ask("askProduct", "product")
    /\ UNCHANGED <<envV, cmd, cfgV, brV, product, commitDesc, branch, firstMsg,
                   secondMsg, shownMsgs, ticketID, confirm, gitCalls, promptErr,
                   printed>>

\* the product prompt is answered
AnswerProduct(p) ==
    /\ pc = "askProduct"
    /\ product' = p
    /\ Ask("askCommitDesc", "commit description")
    /\ UNCHANGED <<envV, cmd, cfgV, brV, commitType, commitDesc, branch, firstMsg,
                   secondMsg, shownMsgs, ticketID, confirm, gitCalls, promptErr,
                   printed>>

\* getCurrentBranch: ok is the outcome of git rev-parse, h the branch of HEAD
getCurrentBranch(ok, h) ==
    IF ~ok THEN [branch |-> <<>>, err |-> "failed to get current branch"]
    ELSE [branch |-> TrimSpace(h \o <<"\n">>), err |-> "nil"]

\* steps 4 and 5: the ticket is taken from the branch and the two messages
\* are assembled and printed
AssembleCommit(desc) ==
    /\ gitCalls' = Append(gitCalls, GitRevParse)
    /\ \E ok \in BOOLEAN :
        /\ repo = "norepo" => ~ok
        /\ LET b == getCurrentBranch(ok, head)
               t == extractTicketFromBranch(b.branch)
           IN  /\ branch' = b.branch
               /\ IF b.err # "nil"
                  THEN /\ Return("err", b.err)
                       /\ UNCHANGED <<ticketID, firstMsg, secondMsg, shownMsgs, prompts>>
                  ELSE IF t.err # "nil"
                  THEN /\ Return("err", "failed to extract JIRA ticket from branch")
                       /\ UNCHANGED <<ticketID, firstMsg, secondMsg, shownMsgs, prompts>>
                  ELSE /\ ticketID' = t.ticket
                       /\ firstMsg' = assembleFirstMsg(commitType, product, desc)
                       /\ secondMsg' = assembleSecondMsg(commitType, t.ticket)
                       /\ shownMsgs' = <<assembleFirstMsg(commitType, product, desc),
                                         assembleSecondMsg(commitType, t.ticket)>>
                       /\ Ask("confirmCommit", "confirm")

\* the commit description prompt is answered
AnswerCommitDesc(str) ==
    /\ pc = "askCommitDesc"
    /\ promptErr' = commitDescValidator(str)
    /\ IF commitDescValidator(str) # "nil"
       THEN UNCHANGED <<commitDesc, branch, ticketID, firstMsg, secondMsg,
                        shownMsgs, gitCalls, pc, result, errMsg, prompts>>
       ELSE /\ commitDesc' = str
            /\ AssembleCommit(str)
    /\ UNCHANGED <<envV, cmd, cfgV, brV, commitType, product, confirm, printed>>

\* git commit -m firstMsg -m secondMsg: it succeeds only on staged changes
\* and may fail then
Commit ==
    /\ gitCalls' = Append(gitCalls, GitCommit(firstMsg, secondMsg))
    /\ \E ok \in BOOLEAN :
        /\ repo # "staged" => ~ok
        /\ IF ok
           THEN /\ repo' = "nostaged"
                /\ printed' = printed \cup {"Commit created successfully!"}
                /\ Return("nil", "nil")
           ELSE /\ UNCHANGED <<repo, printed>>
                /\ Return("err", "failed to create commit")

\* the confirmation is declined
AbortCommit ==
    /\ printed' = printed \cup {"Commit creation aborted."}
    /\ Return("nil", "nil")
    /\ UNCHANGED <<repo, gitCalls>>

\* as AnswerConfirmCommit, but the answer is not looked at
AnswerConfirmCommit_NoCheck(b) ==
    /\ pc = "confirmCommit"
    /\ confirm' = b
    /\ Commit
    /\ UNCHANGED <<configDir, fileState, fileAbbrev, head, cmd, cfgV, brV, cmV,
                   ticketID, prompts, promptErr>>

\* the confirmation prompt of create-commit is answered
AnswerConfirmCommit(b) ==
    /\ pc = "confirmCommit"
    /\ confirm' = b
    /\ IF b THEN Commit ELSE AbortCommit
    /\ UNCHANGED <<configDir, fileState, fileAbbrev, head, cmd, cfgV, brV, cmV,
                   ticketID, prompts, promptErr>>

(* ---------------------------------------------------------------------- *)
(* Specification                                                           *)
(* ---------------------------------------------------------------------- *)
Next ==
    \/ RunConfig /\ step' = "RunConfig"
    \/ \E str \in AbbrevInputs : AnswerAbbrev(str) /\ step' = "AnswerAbbrev"
    \/ RunShowConfig /\ step' = "RunShowConfig"
    \/ Interrupt /\ step' = "Interrupt"
    \/ RunCreateBranch /\ step' = "RunCreateBranch"
    \/ \E t \in branchTypeOptions : AnswerBranchType(t) /\ step' = "AnswerBranchType"
    \/ \E str \in DescInputs : AnswerDescription(str) /\ step' = "AnswerDescription"
    \/ \E str \in TicketInputs : AnswerTicketID(str) /\ step' = "AnswerTicketID"
    \/ \E c \in menuOptions : ChooseMenu(c) /\ step' = "ChooseMenu"
    \/ \E b \in BOOLEAN : AnswerConfirmBranch(b) /\ step' = "AnswerConfirmBranch"
    \/ \E t \in branchTypeOptions : EditBranchType(t) /\ step' = "EditBranchType"
    \/ \E str \in DescInputs : EditDescription(str) /\ step' = "EditDescription"
    \/ \E str \in TicketInputs : EditTicketID(str) /\ step' = "EditTicketID"
    \/ RunCreateCommit /\ step' = "RunCreateCommit"
    \/ \E t \in commitTypeOptions : AnswerCommitType(t) /\ step' = "AnswerCommitType"
    \/ \E p \in productOptions : AnswerProduct(p) /\ step' = "AnswerProduct"
    \/ \E str \in CommitDescInputs : AnswerCommitDesc(str) /\ step' = "AnswerCommitDesc"
    \/ \E b \in BOOLEAN : AnswerConfirmCommit(b) /\ step' = "AnswerConfirmCommit"

Spec == Init /\ [][Next]_vars

TypeOK ==
    /\ pc \in PromptStates \cup {"idle", "exited"}
    /\ result \in {"none", "nil", "err"}
    /\ fileState # "absent" => configDir

(* ---------------------------------------------------------------------- *)
(* Properties                                                              *)
(* ---------------------------------------------------------------------- *)
ReviewStates ==
    {"menu", "confirmBranch", "editBranchType", "editDescription", "editTicketID"}

\* git checkout -b has been run in this run of create-branch
BranchCreated ==
    cmd = "create-branch" /\ \E i \in 1..Len(gitCalls) : gitCalls[i].op = "checkout -b"

\* git commit has been run in this run of create-commit
CommitRun ==
    cmd = "create-commit" /\ \E i \in 1..Len(gitCalls) : gitCalls[i].op = "commit -m -m"

\* the part of s after its last "/", all of s when it has none
LastSegment(s) ==
    LET idx == {i \in 1..Len(s) : s[i] = "/"}
    IN  IF idx = {} THEN s
        ELSE SubSeq(s, (CHOOSE i \in idx : \A j \in idx : j <= i) + 1, Len(s))

\* C1: in create-branch an external command is run only by the step that
\* answers the confirmation prompt, reached through "Confirm and create
\* branch", with yes, and the command is git checkout -b; the answer no runs
\* nothing, changes no field and leads back to the review menu.
C1_Step ==
    /\ (cmd' = "create-branch" /\ gitCalls' # <<>> /\ gitCalls' # gitCalls) =>
           /\ pc = "confirmBranch"
           /\ choice = "Confirm and create branch"
           /\ step' = "AnswerConfirmBranch"
           /\ confirm'
           /\ gitCalls' = <<GitCheckoutB(confirmMsg)>>
    /\ (pc = "confirmBranch" /\ step' = "AnswerConfirmBranch" /\ ~confirm') =>
           /\ pc' = "menu"
           /\ result' = "none"
           /\ gitCalls' = gitCalls
           /\ UNCHANGED <<cfg, branchType, description, ticketID, envV>>
C1_CheckoutOnlyAfterYes == [][C1_Step]_vars

\* C1 witness: the confirmation was answered yes and the branch was created
C1_Witness ==
    /\ cmd = "create-branch" /\ step = "AnswerConfirmBranch" /\ confirm
    /\ result = "nil" /\ gitCalls = <<GitCheckoutB(branchName)>>
    /\ head = branchName

\* C2: create-commit started with nothing staged returns an error at once:
\* no prompt has been shown and the staged check is the only command run.
C2_Step ==
    (cmd' = "create-commit" /\ step' = "RunCreateCommit" /\ repo = "nostaged") =>
        /\ pc' = "exited" /\ result' = "err"
        /\ prompts' = {}
        /\ gitCalls' = <<GitDiffCached>>
C2_NoStagedFailsFirst == [][C2_Step]_vars

\* C2 witness: a run of create-commit that ended on the staged check
C2_Witness ==
    /\ cmd = "create-commit" /\ pc = "exited" /\ repo = "nostaged"
    /\ errMsg = "no staged changes found" /\ prompts = {}

\* C3: in create-commit the answer no to the confirmation ends the run with
\* success, runs no command and leaves the environment as it was; git commit
\* is run only by the step that answers the confirmation with yes.
C3_Step ==
    /\ (pc = "confirmCommit" /\ step' = "AnswerConfirmCommit" /\ ~confirm') =>
           /\ pc' = "exited" /\ result' = "nil" /\ errMsg' = "nil"
           /\ gitCalls' = gitCalls
           /\ UNCHANGED envV
    /\ (cmd' = "create-commit" /\ gitCalls' # gitCalls /\ Len(gitCalls') > 0
            /\ gitCalls'[Len(gitCalls')].op = "commit -m -m") =>
           /\ pc = "confirmCommit" /\ step' = "AnswerConfirmCommit" /\ confirm'
C3_NoCommitWithoutYes == [][C3_Step]_vars

\* C3 witness: the confirmation of create-commit was declined
C3_Witness ==
    /\ cmd = "create-commit" /\ step = "AnswerConfirmCommit" /\ ~confirm
    /\ pc = "exited" /\ result = "nil" /\ ~CommitRun
    /\ "Commit creation aborted." \in printed

\* no abbreviation is stored: there is no record, or the record has none
ConfigurationMissing ==
    fileState = "absent" \/ (fileState = "ok" /\ fileAbbrev = <<>>)

\* C4: with no abbreviation stored, create-branch returns an error without
\* showing a prompt or running a command, and show-config, when the
\* configuration path can be had, prints the not-configured line and
\* returns success.
C4_Step ==
    ConfigurationMissing =>
        /\ step' = "RunCreateBranch" =>
               /\ pc' = "exited" /\ result' = "err"
               /\ prompts' = {} /\ gitCalls' = <<>>
        /\ (step' = "RunShowConfig" /\ loadErr' # "path") =>
               /\ pc' = "exited" /\ result' = "nil"
               /\ printed' = {"No configuration found."}
C4_MissingConfiguration == [][C4_Step]_vars

\* C4 witness: create-branch refused to run without a configuration
C4_Witness ==
    /\ cmd = "create-branch" /\ ConfigurationMissing /\ pc = "exited"
    /\ errMsg = "no configuration found" /\ prompts = {}

\* C5: a record that exists and cannot be opened or decoded makes loadConfig
\* return an error.
C5_LoadReportsFailures ==
    (cmd \in {"show-config", "create-branch"}
        /\ fileState \in {"unreadable", "undecodable"}) => loadErr # "nil"

\* C6: whenever the review menu or one of its prompts is up, and when the
\* branch is created, the description has no space, is not empty and has at
\* most 30 characters, the ticket matches the pattern and the type is fix or
\* feat; an input the validator rejects changes no field.
C6_Fields ==
    (cmd = "create-branch" /\ (pc \in ReviewStates \/ BranchCreated)) =>
        /\ \A i \in 1..Len(description) : description[i] # " "
        /\ Len(description) >= 1
        /\ Len(description) <= maxDescLength
        /\ MatchTicket(ticketID)
        /\ branchType \in {fix, feat}
C6_Reject ==
    (cmd = "create-branch" /\ promptErr' # "nil"
        /\ step' \in {"AnswerDescription", "AnswerTicketID",
                      "EditDescription", "EditTicketID"}) =>
        UNCHANGED <<branchType, description, ticketID, pc>>
C6_FieldsValid == [](C6_Fields) /\ [][C6_Reject]_vars

\* C6 witness: the menu is up after an edit put in a description of the
\* greatest length, typed with a space
C6_Witness ==
    /\ cmd = "create-branch" /\ pc = "menu" /\ step = "EditDescription"
    /\ Len(description) = maxDescLength /\ description[2] = "-"

\* C7: the name given to git checkout -b is lower(abbreviation), "-", type,
\* "-", lower(description), "/", ticket of the fields as they are, it is the
\* name the confirmation prompt showed, and it ends with the ticket as typed.
C7_BranchNameAssembled ==
    BranchCreated =>
        LET name == ToLower(cfg) \o <<"-">> \o branchType \o <<"-">>
                        \o ToLower(description) \o <<"/">> \o ticketID
        IN  /\ gitCalls = <<GitCheckoutB(name)>>
            /\ confirmMsg = name
            /\ LastSegment(gitCalls[1].args[1]) = ticketID

\* C7 witness: the branch ds-feat-add-login-page/CPRE-999 was created from
\* an abbreviation and a ticket with upper-case letters
C7_Witness ==
    /\ BranchCreated /\ result = "nil"
    /\ cfg = <<"D","s">> /\ ticketID = CPRE999
    /\ gitCalls[1].args[1] =
           <<"d","s","-","f","e","a","t","-","a","d","d","-","l","o","g","i","n",
             "-","p","a","g","e","/","C","P","R","E","-","9","9","9">>

\* the run of create-commit has read the current branch
BranchRead ==
    /\ cmd = "create-commit" /\ Len(gitCalls) >= 2
    /\ errMsg # "failed to get current branch"

\* C8: once create-commit has read the current branch, the ticket is its
\* last segment when that matches letters-hyphen-digits, and otherwise the
\* run has failed on the extraction; git commit is run only with the
\* matching last segment of the current branch.
C8_TicketFromBranch ==
    /\ BranchRead =>
           /\ branch = head
           /\ IF MatchTicket(LastSegment(head))
              THEN /\ ticketID = LastSegment(head)
                   /\ errMsg # "failed to extract JIRA ticket from branch"
              ELSE /\ pc = "exited" /\ result = "err"
                   /\ errMsg = "failed to extract JIRA ticket from branch"
                   /\ ticketID = <<>>
    /\ CommitRun =>
           /\ MatchTicket(LastSegment(head))
           /\ ticketID = LastSegment(head)
           /\ LET m2 == gitCalls[Len(gitCalls)].args[2]
              IN  SubSeq(m2, Len(m2) - Len(ticketID) + 1, Len(m2)) = ticketID

\* C8 witness: a commit made on a/b/CLI-34343
C8_Witness ==
    /\ CommitRun /\ result = "nil" /\ head = nestedBranch
    /\ ticketID = <<"C","L","I","-","3","4","3","4","3">>

\* C9: once the messages are assembled, the first is type(product): and the
\* description as typed, the second is Fixes for fix and Closes for feat
\* followed by the ticket, the two lines printed are these, and they are the
\* two messages git commit is given.
C9_CommitMessages ==
    (cmd = "create-commit" /\ (pc = "confirmCommit" \/ CommitRun)) =>
        /\ commitType \in {fix, feat} /\ product \in {lego, plec}
        /\ firstMsg = commitType \o <<"(">> \o product \o <<")", ":", " ">>
                          \o commitDesc
        /\ secondMsg = (IF commitType = fix THEN Fixes ELSE Closes)
                           \o <<" ">> \o ticketID
        /\ shownMsgs = <<firstMsg, secondMsg>>
        /\ CommitRun => gitCalls[Len(gitCalls)] = GitCommit(shownMsgs[1], shownMsgs[2])

\* C9 witness: the commit "feat(lego): Add login page", "Closes CPRE-123"
C9_Witness ==
    /\ CommitRun /\ result = "nil"
    /\ gitCalls[Len(gitCalls)].args =
           << <<"f","e","a","t","(","l","e","g","o",")",":"," ",
                "A","d","d"," ","l","o","g","i","n"," ","p","a","g","e">>,
              <<"C","l","o","s","e","s"," ","C","P","R","E","-","1","2","3">> >>

\* C10: the prompt of an edit changes at most its own field, runs no
\* command and, once answered with an accepted value, leads back to the
\* menu; choosing an edit changes no field; Cancel ends the run with success
\* and no command run.
C10_Step ==
    /\ (pc = "editBranchType") =>
           /\ UNCHANGED <<description, ticketID, cfg, gitCalls, envV>>
           /\ step' = "EditBranchType" => pc' = "menu"
    /\ (pc = "editDescription") =>
           /\ UNCHANGED <<branchType, ticketID, cfg, gitCalls, envV>>
           /\ (step' = "EditDescription" /\ promptErr' = "nil") => pc' = "menu"
    /\ (pc = "editTicketID") =>
           /\ UNCHANGED <<branchType, description, cfg, gitCalls, envV>>
           /\ (step' = "EditTicketID" /\ promptErr' = "nil") => pc' = "menu"
    /\ (pc = "menu") =>
           /\ UNCHANGED <<branchType, description, ticketID, cfg, gitCalls, envV>>
           /\ choice' = "Cancel" =>
                  pc' = "exited" /\ result' = "nil" /\ gitCalls' = <<>>
C10_EditsAreLocal == [][C10_Step]_vars

\* C10 witness: the menu is up again after an edit of the branch type with
\* the description and the ticket in place
C10_Witness ==
    /\ cmd = "create-branch" /\ pc = "menu" /\ step = "EditBranchType"
    /\ description # <<>> /\ ticketID # <<>> /\ gitCalls = <<>>

====
